---- MODULE Spec2Model ----
(***************************************************************************)
(* Model of the `folds` crate (src/src/lib.rs): the Fold trait with its    *)
(* default drivers try_fold / fold, the combinators Zip and TryZip, and    *)
(* the function-backed folds FromFn and FromTryFn.                         *)
(*                                                                         *)
(* A fold instance is a record tree.  Leaves are                           *)
(*   [kind |-> "FromFn" | "FromTryFn", acc |-> seed, fun |-> closure id]   *)
(* and inner nodes are                                                     *)
(*   [kind |-> "Zip" | "TryZip", fold1 |-> ..., fold2 |-> ...].            *)
(* A Result is [tag |-> "Ok" | "Err", val |-> payload].                    *)
(* The integer type of the tests (u32) is modelled by unsigned integers of *)
(* IntBits bits, with the same wrapping / checked arithmetic.              *)
(***************************************************************************)
EXTENDS Integers, Sequences, FiniteSets, TLC

\* ---------------------------------------------------------------- bounds
IntBits == 5
MaxLen == 4
MaxRuns == 2

Modulus == 2 ^ IntBits

\* ---------------------------------------------------------------- Result<T, E>
Ok(v) == [tag |-> "Ok", val |-> v]
Err(e) == [tag |-> "Err", val |-> e]
IsOk(r) == r.tag = "Ok"
IsErr(r) == r.tag = "Err"

\* ---------------------------------------------------------------- closures
\* u32::wrapping_add, u32::wrapping_mul (the step functions of sum_and_product)
wrapping_add(x, y) == (x + y) % Modulus
wrapping_mul(x, y) == (x * y) % Modulus

\* x.checked_add(y).ok_or(e), x.checked_mul(y).ok_or(e) (the step functions of
\* try_sum_and_product); the error value e names the operation and its operands
checked_add(x, y) == IF x + y < Modulus THEN Ok(x + y) ELSE Err(<<"add", x, y>>)
checked_mul(x, y) == IF x * y < Modulus THEN Ok(x * y) ELSE Err(<<"mul", x, y>>)

\* (self.fun)(acc, elem) for F: Fn(Acc, Elem) -> Acc
CallFn(fun, acc, elem) ==
    CASE fun = "wrapping_add" -> wrapping_add(acc, elem)
      [] fun = "wrapping_mul" -> wrapping_mul(acc, elem)

\* (self.fun)(acc, elem) for Fun: Fn(Acc, Elem) -> Result<Acc, Error>
CallTryFn(fun, acc, elem) ==
    CASE fun = "checked_add" -> checked_add(acc, elem)
      [] fun = "checked_mul" -> checked_mul(acc, elem)

\* ---------------------------------------------------------------- constructors
from_fn(acc, f) == [kind |-> "FromFn", acc |-> acc, fun |-> f]
from_try_fn(acc, fun) == [kind |-> "FromTryFn", acc |-> acc, fun |-> fun]
zip(self, other) == [kind |-> "Zip", fold1 |-> self, fold2 |-> other]
try_zip(self, other) == [kind |-> "TryZip", fold1 |-> self, fold2 |-> other]

\* type Error of a fold: "Infallible" (uninhabited) or "E" (the closures' error)
RECURSIVE ErrorType(_)
ErrorType(self) ==
    CASE self.kind = "FromFn" -> "Infallible"
      [] self.kind = "FromTryFn" -> "E"
      [] self.kind = "Zip" -> "Infallible"
      [] self.kind = "TryZip" -> ErrorType(self.fold1)

\* ---------------------------------------------------------------- init
\* A method taking &mut self yields the instance after the call and the value
\* returned: [self |-> ..., ret |-> ...].
RECURSIVE init(_)

\* a FromFn::init that yields the type's default instead of the seed
FromFn_init_default(self) == [self |-> self, ret |-> 0]

\* FromFn::init: self.acc.clone()
FromFn_init(self) == [self |-> self, ret |-> self.acc]

\* a FromTryFn::init that moves the seed out (std::mem::take) instead of
\* cloning it
FromTryFn_init_take(self) == [self |-> [self EXCEPT !.acc = 0], ret |-> self.acc]

\* FromTryFn::init: self.acc.clone()
FromTryFn_init(self) == [self |-> self, ret |-> self.acc]

\* Zip::init: (Ok(self.fold1.init()), Ok(self.fold2.init()))
Zip_init(self) ==
    LET i1 == init(self.fold1)
        i2 == init(self.fold2)
    IN  [self |-> [self EXCEPT !.fold1 = i1.self, !.fold2 = i2.self],
         ret |-> <<Ok(i1.ret), Ok(i2.ret)>>]

\* TryZip::init: (self.fold1.init(), self.fold2.init())
TryZip_init(self) ==
    LET i1 == init(self.fold1)
        i2 == init(self.fold2)
    IN  [self |-> [self EXCEPT !.fold1 = i1.self, !.fold2 = i2.self],
         ret |-> <<i1.ret, i2.ret>>]

init(self) ==
    CASE self.kind = "FromFn" -> FromFn_init(self)
      [] self.kind = "FromTryFn" -> FromTryFn_init(self)
      [] self.kind = "Zip" -> Zip_init(self)
      [] self.kind = "TryZip" -> TryZip_init(self)

\* ---------------------------------------------------------------- try_step
\* try_step(self, acc, elem, path) is [ret |-> the Result returned,
\* calls |-> the folds whose try_step was invoked, in invocation order, each
\* named by its path from the driven fold (<<>> the driven fold itself,
\* 1 = fold1, 2 = fold2)].  No try_step assigns to self.
RECURSIVE try_step(_, _, _, _)

\* FromFn::try_step: Ok((self.fun)(acc, elem))
FromFn_try_step(self, acc, elem, path) ==
    [ret |-> Ok(CallFn(self.fun, acc, elem)), calls |-> <<path>>]

\* FromTryFn::try_step: (self.fun)(acc, elem)
FromTryFn_try_step(self, acc, elem, path) ==
    [ret |-> CallTryFn(self.fun, acc, elem), calls |-> <<path>>]

\* a Zip::try_step that restarts a failed slot from its constituent's init
Zip_try_step_retry(self, acc, elem, path) ==
    LET res1 == try_step(self.fold1,
                         IF IsOk(acc[1]) THEN acc[1].val ELSE init(self.fold1).ret,
                         elem, path \o <<1>>)
        res2 == try_step(self.fold2,
                         IF IsOk(acc[2]) THEN acc[2].val ELSE init(self.fold2).ret,
                         elem, path \o <<2>>)
    IN  [ret |-> Ok(<<res1.ret, res2.ret>>),
         calls |-> <<path>> \o res1.calls \o res2.calls]

\* a Zip::try_step that advances the second slot only while the first is Ok
Zip_try_step_dependent(self, acc, elem, path) ==
    LET res1 == IF IsOk(acc[1])
                THEN try_step(self.fold1, acc[1].val, elem, path \o <<1>>)
                ELSE [ret |-> acc[1], calls |-> <<>>]
        res2 == IF IsOk(acc[2]) /\ IsOk(res1.ret)
                THEN try_step(self.fold2, acc[2].val, elem, path \o <<2>>)
                ELSE [ret |-> acc[2], calls |-> <<>>]
    IN  [ret |-> Ok(<<res1.ret, res2.ret>>),
         calls |-> <<path>> \o res1.calls \o res2.calls]

\* a Zip::try_step that replaces a slot's error by a fresh Ok(init)
Zip_try_step_reset(self, acc, elem, path) ==
    LET res1 == try_step(self.fold1, acc[1].val, elem, path \o <<1>>)
        res2 == try_step(self.fold2, acc[2].val, elem, path \o <<2>>)
        slot1 == IF IsOk(res1.ret) THEN res1.ret ELSE Ok(init(self.fold1).ret)
        slot2 == IF IsOk(res2.ret) THEN res2.ret ELSE Ok(init(self.fold2).ret)
    IN  [ret |-> Ok(<<slot1, slot2>>),
         calls |-> <<path>> \o res1.calls \o res2.calls]

\* Zip::try_step: each slot is advanced with Result::and_then
Zip_try_step(self, acc, elem, path) ==
    LET acc1 == acc[1]
        acc2 == acc[2]
        res1 == IF IsOk(acc1)
                THEN try_step(self.fold1, acc1.val, elem, path \o <<1>>)
                ELSE [ret |-> acc1, calls |-> <<>>]
        res2 == IF IsOk(acc2)
                THEN try_step(self.fold2, acc2.val, elem, path \o <<2>>)
                ELSE [ret |-> acc2, calls |-> <<>>]
    IN  [ret |-> Ok(<<res1.ret, res2.ret>>),
         calls |-> <<path>> \o res1.calls \o res2.calls]

\* a TryZip::try_step that returns the second accumulator it was given
TryZip_try_step_stale2(self, acc, elem, path) ==
    LET res1 == try_step(self.fold1, acc[1], elem, path \o <<1>>)
    IN  IF IsErr(res1.ret)
        THEN [ret |-> res1.ret, calls |-> <<path>> \o res1.calls]
        ELSE LET res2 == try_step(self.fold2, acc[2], elem, path \o <<2>>)
             IN  IF IsErr(res2.ret)
                 THEN [ret |-> res2.ret, calls |-> <<path>> \o res1.calls \o res2.calls]
                 ELSE [ret |-> Ok(<<res1.ret.val, acc[2]>>),
                       calls |-> <<path>> \o res1.calls \o res2.calls]

\* a TryZip::try_step that returns the first accumulator it was given
TryZip_try_step_stale1(self, acc, elem, path) ==
    LET res1 == try_step(self.fold1, acc[1], elem, path \o <<1>>)
    IN  IF IsErr(res1.ret)
        THEN [ret |-> res1.ret, calls |-> <<path>> \o res1.calls]
        ELSE LET res2 == try_step(self.fold2, acc[2], elem, path \o <<2>>)
             IN  IF IsErr(res2.ret)
                 THEN [ret |-> res2.ret, calls |-> <<path>> \o res1.calls \o res2.calls]
                 ELSE [ret |-> Ok(<<acc[1], res2.ret.val>>),
                       calls |-> <<path>> \o res1.calls \o res2.calls]

\* a TryZip::try_step that steps both constituents before it looks at either
\* Result
TryZip_try_step_eager(self, acc, elem, path) ==
    LET res1 == try_step(self.fold1, acc[1], elem, path \o <<1>>)
        res2 == try_step(self.fold2, acc[2], elem, path \o <<2>>)
        all == <<path>> \o res1.calls \o res2.calls
    IN  IF IsErr(res1.ret) THEN [ret |-> res1.ret, calls |-> all]
        ELSE IF IsErr(res2.ret) THEN [ret |-> res2.ret, calls |-> all]
        ELSE [ret |-> Ok(<<res1.ret.val, res2.ret.val>>), calls |-> all]

\* a TryZip::try_step that advances the second constituent first
TryZip_try_step_right_first(self, acc, elem, path) ==
    LET res2 == try_step(self.fold2, acc[2], elem, path \o <<2>>)
    IN  IF IsErr(res2.ret)
        THEN [ret |-> res2.ret, calls |-> <<path>> \o res2.calls]
        ELSE LET res1 == try_step(self.fold1, acc[1], elem, path \o <<1>>)
             IN  IF IsErr(res1.ret)
                 THEN [ret |-> res1.ret, calls |-> <<path>> \o res2.calls \o res1.calls]
                 ELSE [ret |-> Ok(<<res1.ret.val, res2.ret.val>>),
                       calls |-> <<path>> \o res2.calls \o res1.calls]

\* TryZip::try_step: each constituent is advanced with the ? operator
TryZip_try_step(self, acc, elem, path) ==
    LET acc1 == acc[1]
        acc2 == acc[2]
        res1 == try_step(self.fold1, acc1, elem, path \o <<1>>)
    IN  IF IsErr(res1.ret)
        THEN [ret |-> res1.ret, calls |-> <<path>> \o res1.calls]
        ELSE LET res2 == try_step(self.fold2, acc2, elem, path \o <<2>>)
             IN  IF IsErr(res2.ret)
                 THEN [ret |-> res2.ret, calls |-> <<path>> \o res1.calls \o res2.calls]
                 ELSE [ret |-> Ok(<<res1.ret.val, res2.ret.val>>),
                       calls |-> <<path>> \o res1.calls \o res2.calls]

try_step(self, acc, elem, path) ==
    CASE self.kind = "FromFn" -> FromFn_try_step(self, acc, elem, path)
      [] self.kind = "FromTryFn" -> FromTryFn_try_step(self, acc, elem, path)
      [] self.kind = "Zip" -> Zip_try_step(self, acc, elem, path)
      [] self.kind = "TryZip" -> TryZip_try_step(self, acc, elem, path)

\* ---------------------------------------------------------------- drivers
\* Iterator::try_fold(init, f) from position i on: stop at the first Err
RECURSIVE iter_try_fold(_, _, _, _)
iter_try_fold(self, acc, items, i) ==
    IF i > Len(items)
    THEN Ok(acc)
    ELSE LET r == try_step(self, acc, items[i], <<>>).ret
         IN  IF IsErr(r) THEN r ELSE iter_try_fold(self, r.val, items, i + 1)

\* Fold::try_fold as a function of the instance and the whole sequence
try_fold(self, items) == iter_try_fold(self, init(self).ret, items, 1)

\* Uninhabited::absurd: no value of the error type exists to call it with
absurd(err) == "unreachable"

\* Fold::fold: match self.try_fold(iter) { Ok(acc) => acc, Err(err) => err.absurd() }
fold_of(res) == IF IsOk(res) THEN res.val ELSE absurd(res.val)
fold(self, items) == fold_of(try_fold(self, items))

\* ---------------------------------------------------------------- instances
Elems == <<1, 2, 3, 4>>

RECURSIVE SeqsOfLen(_)
SeqsOfLen(n) ==
    IF n = 0 THEN {<<>>}
    ELSE {Append(s, Elems[k]) : s \in SeqsOfLen(n - 1), k \in 1..Len(Elems)}
Inputs == UNION {SeqsOfLen(n) : n \in 0..MaxLen}

Sum == from_fn(0, "wrapping_add")
Prod == from_fn(1, "wrapping_mul")
TrySum == from_try_fn(0, "checked_add")
TryProd == from_try_fn(1, "checked_mul")
\* a checked sum whose seed leaves room for less than 8
TrySumHigh == from_try_fn(Modulus - 8, "checked_add")

Infallibles == <<Sum, Prod>>
Fallibles == <<TrySum, TryProd, TrySumHigh>>
Leaves == Infallibles \o Fallibles

Zips ==
    <<zip(TrySumHigh, TrySumHigh), zip(TrySumHigh, TryProd),
      zip(TryProd, TrySumHigh), zip(TryProd, TryProd),
      zip(Sum, TryProd), zip(TrySumHigh, Prod), zip(TrySum, Prod), zip(Sum, Prod)>>
\* the infallible pairs of the tests, and every pair of fallible leaves
TryZips ==
    <<try_zip(Sum, Prod), try_zip(Prod, Sum)>>
        \o [k \in 1..(Len(Fallibles) * Len(Fallibles)) |->
               try_zip(Fallibles[((k - 1) \div Len(Fallibles)) + 1],
                       Fallibles[((k - 1) % Len(Fallibles)) + 1])]
Nested ==
    <<zip(try_zip(TryProd, TrySumHigh), TryProd),
      zip(Sum, zip(TryProd, TrySumHigh)),
      try_zip(try_zip(TrySumHigh, TryProd), TryProd),
      try_zip(TryProd, try_zip(TryProd, TrySumHigh)),
      try_zip(zip(TryProd, TrySumHigh), Prod)>>
Folds == Leaves \o Zips \o TryZips \o Nested

\* ---------------------------------------------------------------- state
VARIABLES
    self,       \* the fold instance being driven (&mut self)
    entry,      \* the method the caller drives it with: "fold" or "try_fold"
    xs,         \* the elements the iterator yields, in order
    pc,         \* "idle" before a call, "loop" inside Iterator::try_fold, "done"
    pulled,     \* number of elements pulled from the iterator in this run
    acc,        \* the running accumulator of this run (None once moved out)
    ret,        \* the value returned by the last completed call
    inits,      \* number of self.init() calls made in this run
    calls,      \* try_step invocations of this run: <<[path, index], ...>>
    returned    \* values returned by the completed runs, in order

vars == <<self, entry, xs, pc, pulled, acc, ret, inits, calls, returned>>

None == [tag |-> "None", val |-> 0]

Init ==
    /\ \E k \in 1..Len(Folds) : self = Folds[k]
    /\ entry \in {"fold", "try_fold"}
    /\ entry = "fold" => ErrorType(self) = "Infallible"
    /\ xs \in Inputs
    /\ pc = "idle"
    /\ pulled = 0
    /\ acc = None
    /\ ret = None
    /\ inits = 0
    /\ calls = <<>>
    /\ returned = <<>>

\* the value the caller receives for the Result res of try_fold
Returned(res) == IF entry = "fold" THEN fold_of(res) ELSE res

\* fold / try_fold is called with a fresh iterator over xs: self.init() is
\* evaluated as the first argument of Iterator::try_fold
Drive ==
    /\ LET i == init(self)
       IN  /\ self' = i.self
           /\ acc' = i.ret
    /\ inits' = 1
    /\ pulled' = 0
    /\ calls' = <<>>
    /\ pc' = "loop"
    /\ UNCHANGED <<entry, xs, ret, returned>>

\* the first call of fold / try_fold on the instance
Call ==
    /\ pc = "idle"
    /\ Drive

\* a further call on the same instance, with the same input, after a call
\* returned
Again ==
    /\ pc = "done"
    /\ Len(returned) < MaxRuns
    /\ Drive

\* an iteration that drops a failed step's error and goes on with the
\* accumulator it had
Step_no_early_exit ==
    /\ pc = "loop"
    /\ pulled < Len(xs)
    /\ LET k == pulled + 1
           r == try_step(self, acc, xs[k], <<>>)
       IN  /\ pulled' = k
           /\ calls' = calls \o [j \in 1..Len(r.calls) |-> [path |-> r.calls[j], index |-> k]]
           /\ acc' = IF IsErr(r.ret) THEN acc ELSE r.ret.val
    /\ pc' = "loop"
    /\ UNCHANGED <<self, entry, xs, inits, ret, returned>>

\* one iteration of Iterator::try_fold: pull an element, apply the closure
\* |acc, elem| self.try_step(acc, elem), leave the loop on Err
Step ==
    /\ pc = "loop"
    /\ pulled < Len(xs)
    /\ LET k == pulled + 1
           r == try_step(self, acc, xs[k], <<>>)
       IN  /\ pulled' = k
           /\ calls' = calls \o [j \in 1..Len(r.calls) |-> [path |-> r.calls[j], index |-> k]]
           /\ IF IsErr(r.ret)
              THEN /\ pc' = "done"
                   /\ ret' = Returned(r.ret)
                   /\ returned' = Append(returned, Returned(r.ret))
                   /\ acc' = None
              ELSE /\ pc' = "loop"
                   /\ acc' = r.ret.val
                   /\ UNCHANGED <<ret, returned>>
    /\ UNCHANGED <<self, entry, xs, inits>>

\* the iterator is exhausted: Iterator::try_fold returns Ok(acc)
Finish ==
    /\ pc = "loop"
    /\ pulled = Len(xs)
    /\ pc' = "done"
    /\ ret' = Returned(Ok(acc))
    /\ returned' = Append(returned, Returned(Ok(acc)))
    /\ UNCHANGED <<self, entry, xs, pulled, acc, inits, calls>>

Next == Call \/ Step \/ Finish

Spec == Init /\ [][Next]_vars

\* the instance is driven up to MaxRuns times
NextAgain == Call \/ Again \/ Step \/ Finish

SpecAgain == Init /\ [][NextAgain]_vars

\* ---------------------------------------------------------------- auxiliaries
\* the first k elements of the input
Prefix(k) == SubSeq(xs, 1, k)

\* the accumulator of f after the first k elements of items, none of which fails
RECURSIVE AccAfter(_, _, _)
AccAfter(f, items, k) ==
    IF k = 0 THEN init(f).ret
    ELSE try_step(f, AccAfter(f, items, k - 1), items[k], <<>>).ret.val

\* what f's step returns on element k of items, after k - 1 successful steps
StepOn(f, items, k) == try_step(f, AccAfter(f, items, k - 1), items[k], <<>>).ret

\* index of the first element of items on which f's step fails, 0 if none
RECURSIVE FirstFailureFrom(_, _, _, _)
FirstFailureFrom(f, a, items, k) ==
    IF k > Len(items) THEN 0
    ELSE LET r == try_step(f, a, items[k], <<>>).ret
         IN  IF IsErr(r) THEN k ELSE FirstFailureFrom(f, r.val, items, k + 1)
FirstFailure(f, items) == FirstFailureFrom(f, init(f).ret, items, 1)

\* the try_step invocations of the driven fold itself / of constituent i or
\* one of its sub-folds
IsTop(c) == c.path = <<>>
IsIn(c, i) == Len(c.path) >= 1 /\ c.path[1] = i
TopCalls == SelectSeq(calls, IsTop)
CalledOn(i, k) == \E j \in 1..Len(calls) : calls[j].path = <<i>> /\ calls[j].index = k
Constituent(i) == IF i = 1 THEN self.fold1 ELSE self.fold2

\* ---------------------------------------------------------------- claims

\* C1: an infallible TryZip driven with fold returns the pair of the results
\* its two constituents return when each is driven alone over the same
\* sequence; sum fused with product over [1,2,3,4] returns (10, 24).
C1_FusionPreservesResults ==
    (pc = "done" /\ entry = "fold" /\ self.kind = "TryZip") =>
        /\ ret = <<fold(self.fold1, xs), fold(self.fold2, xs)>>
        /\ (self = try_zip(Sum, Prod) /\ xs = <<1, 2, 3, 4>>) => ret = <<10, 24>>

C1_Witness ==
    /\ pc = "done" /\ entry = "fold"
    /\ self = try_zip(Sum, Prod) /\ xs = <<1, 2, 3, 4>>
    /\ ret = <<10, 24>>

\* C2: try_fold calls init() once and applies try_step to the elements in
\* sequence order, one call per pulled element; it returns the error of the
\* first failing step, having pulled exactly the elements up to that one, or
\* Ok of the final accumulator when no step fails; once it has returned no
\* further element is pulled and no further step is made.
C2_TryFoldContract ==
    (entry = "try_fold" /\ pc # "idle") =>
        LET ff == FirstFailure(self, xs)
        IN  /\ inits = 1
            /\ Len(TopCalls) = pulled
            /\ \A j \in 1..Len(TopCalls) : TopCalls[j].index = j
            /\ pc = "loop" =>
                /\ ff = 0 \/ pulled < ff
                /\ acc = AccAfter(self, xs, pulled)
            /\ pc = "done" =>
                /\ IF ff = 0
                   THEN pulled = Len(xs) /\ ret = Ok(AccAfter(self, xs, Len(xs)))
                   ELSE pulled = ff /\ ret = StepOn(self, xs, ff)
                /\ ~ ENABLED Step
                /\ ~ ENABLED Finish

C2_Witness ==
    /\ entry = "try_fold" /\ pc = "done"
    /\ IsErr(ret)
    /\ pulled >= 2 /\ pulled < Len(xs)
    /\ Len(TopCalls) = pulled

\* C3: in a TryZip driven by try_fold, the right constituent is stepped on an
\* element only after the left constituent was stepped on that element, and
\* when the left constituent's step fails on element k neither the right
\* constituent nor any of its sub-folds is stepped on element k or later.
LeftFailsOn(k) ==
    IsErr(try_step(self.fold1, AccAfter(self, xs, k - 1)[1], xs[k], <<1>>).ret)

C3_TryZipShortCircuit ==
    (self.kind = "TryZip" /\ entry = "try_fold" /\ pc # "idle") =>
        /\ \A k \in 1..pulled : CalledOn(1, k)
        /\ \A j \in 1..Len(calls) :
              IsIn(calls[j], 2) =>
                 \E i \in 1..(j - 1) :
                    calls[i].path = <<1>> /\ calls[i].index = calls[j].index
        /\ \A k \in 1..pulled :
              LeftFailsOn(k) =>
                 /\ pc = "done" /\ pulled = k
                 /\ \A j \in 1..Len(calls) :
                       IsIn(calls[j], 2) => calls[j].index < k

C3_Witness ==
    /\ self.kind = "TryZip" /\ entry = "try_fold" /\ pc = "done"
    /\ pulled >= 2 /\ pulled < Len(xs)
    /\ LeftFailsOn(pulled)
    /\ CalledOn(2, pulled - 1)
    /\ ~ CalledOn(2, pulled)

\* C4: in a Zip, a slot that holds Err(e) holds the same Err(e) after every
\* later step, and that constituent is not stepped again; the error a slot
\* holds is the one its constituent produces on the first element it fails on.
ZipSlots == IF pc = "loop" THEN acc ELSE IF entry = "fold" THEN ret ELSE ret.val

C4_FirstErrorKept ==
    (self.kind = "Zip" /\ pc # "idle") =>
        \A i \in {1, 2} :
            IsErr(ZipSlots[i]) =>
                LET k == FirstFailure(Constituent(i), xs)
                IN  /\ k >= 1 /\ k <= pulled
                    /\ ZipSlots[i] = StepOn(Constituent(i), xs, k)

C4_StickyStep ==
    (self.kind = "Zip" /\ pc = "loop" /\ pulled' = pulled + 1) =>
        \A i \in {1, 2} :
            IsErr(acc[i]) =>
                /\ pc' = "loop"
                /\ acc'[i] = acc[i]
                /\ \A j \in (Len(calls) + 1)..Len(calls') : ~ IsIn(calls'[j], i)

C4_ZipFailureSticky == [] C4_FirstErrorKept /\ [][C4_StickyStep]_vars

C4_Witness ==
    /\ self.kind = "Zip" /\ pc = "loop"
    /\ IsErr(acc[1])
    /\ FirstFailure(self.fold1, xs) + 2 <= pulled
    /\ IsOk(acc[2])

\* C5: a Zip's step never fails, so the driver pulls the whole sequence; each
\* constituent is stepped on exactly the elements it would be stepped on when
\* driven alone, and its slot holds what it would return when driven alone
\* over the elements pulled so far, whatever happened to the other slot.
C5_ZipIndependence ==
    (self.kind = "Zip" /\ pc # "idle") =>
        /\ pc = "done" => pulled = Len(xs)
        /\ (pc = "done" /\ entry = "try_fold") => IsOk(ret)
        /\ \A i \in {1, 2} :
              LET ki == FirstFailure(Constituent(i), xs)
              IN  /\ \A k \in 1..pulled : CalledOn(i, k) <=> (ki = 0 \/ k <= ki)
                  /\ ZipSlots[i] = try_fold(Constituent(i), Prefix(pulled))

C5_Witness ==
    /\ self.kind = "Zip" /\ pc = "done"
    /\ IsErr(ZipSlots[1]) /\ IsOk(ZipSlots[2])
    /\ FirstFailure(self.fold1, xs) + 2 <= Len(xs)
    /\ CalledOn(2, Len(xs))
    /\ ~ CalledOn(1, Len(xs))

\* C6: every run of fold / try_fold on the same instance over the same
\* sequence returns the same value, also after a run that returned an error;
\* no step of a run changes the instance, and a run starts from init(), a
\* copy of the stored seed.
C6_SameResults ==
    /\ \A i \in 1..Len(returned) : returned[i] = returned[1]
    /\ (pc = "loop" /\ pulled = 0) => acc = init(self).ret

C6_ReDrivable == [] C6_SameResults /\ [][self' = self]_vars

C6_Witness ==
    /\ Len(returned) = 2
    /\ entry = "try_fold"
    /\ IsErr(returned[1])
    /\ returned[2] = returned[1]

\* C7: over the empty sequence try_fold returns Ok(init()) and fold returns
\* init(), without any step: the seed for from_fn / from_try_fn, the pair of
\* the constituents' inits for TryZip, the pair of their Ok-wrapped inits for
\* Zip.
InitialOf(f) ==
    CASE f.kind \in {"FromFn", "FromTryFn"} -> f.acc
      [] f.kind = "TryZip" -> <<init(f.fold1).ret, init(f.fold2).ret>>
      [] f.kind = "Zip" -> <<Ok(init(f.fold1).ret), Ok(init(f.fold2).ret)>>

C7_EmptySequence ==
    (xs = <<>> /\ pc = "done") =>
        /\ calls = <<>>
        /\ pulled = 0
        /\ entry = "try_fold" => ret = Ok(InitialOf(self))
        /\ entry = "fold" => ret = InitialOf(self)
        /\ (self = Sum /\ entry = "fold") => ret = 0
        /\ (self = TryProd) => ret = Ok(1)
        /\ (self = try_zip(Sum, Prod) /\ entry = "fold") => ret = <<0, 1>>
        /\ (self = zip(TrySum, Prod) /\ entry = "fold") => ret = <<Ok(0), Ok(1)>>

C7_Witness ==
    /\ xs = <<>> /\ pc = "done" /\ entry = "fold"
    /\ self = zip(TrySum, Prod)
    /\ ret = <<Ok(0), Ok(1)>>
    /\ calls = <<>>

\* C8: when both constituents of a TryZip return Ok when driven alone over
\* the sequence, the TryZip's try_fold returns Ok of the pair of their
\* accumulators; checked sum fused with checked product over [1,2,3,4]
\* returns Ok((10, 24)).
C8_FallibleFusionOnSuccess ==
    (pc = "done" /\ entry = "try_fold" /\ self.kind = "TryZip") =>
        LET r1 == try_fold(self.fold1, xs)
            r2 == try_fold(self.fold2, xs)
        IN  /\ (IsOk(r1) /\ IsOk(r2)) => ret = Ok(<<r1.val, r2.val>>)
            /\ (self = try_zip(TrySum, TryProd) /\ xs = <<1, 2, 3, 4>>) =>
                   ret = Ok(<<10, 24>>)

C8_Witness ==
    /\ pc = "done" /\ entry = "try_fold"
    /\ self = try_zip(TrySum, TryProd) /\ xs = <<1, 2, 3, 4>>
    /\ ret = Ok(<<10, 24>>)

\* C9: a TryZip's try_fold returns Err exactly when a constituent fails when
\* driven alone; the error is that of the constituent that fails on the
\* earlier element, and the left one's when both fail on the same element.
C9_FirstFailureWins ==
    (pc = "done" /\ entry = "try_fold" /\ self.kind = "TryZip") =>
        LET r1 == try_fold(self.fold1, xs)
            r2 == try_fold(self.fold2, xs)
            k1 == FirstFailure(self.fold1, xs)
            k2 == FirstFailure(self.fold2, xs)
        IN  /\ IsErr(ret) <=> (IsErr(r1) \/ IsErr(r2))
            /\ (IsErr(r1) /\ (IsOk(r2) \/ k1 <= k2)) => ret = r1
            /\ (IsErr(r2) /\ (IsOk(r1) \/ k2 < k1)) => ret = r2

C9_Witness ==
    /\ pc = "done" /\ entry = "try_fold" /\ self.kind = "TryZip"
    /\ FirstFailure(self.fold1, xs) >= 2
    /\ FirstFailure(self.fold1, xs) = FirstFailure(self.fold2, xs)
    /\ ret = try_fold(self.fold1, xs)
    /\ ret # try_fold(self.fold2, xs)

\* C10: a Zip driven with fold returns the pair of the Results its two
\* constituents return from try_fold when each is driven alone, and its
\* driver steps it once on every element of the sequence, in order.
C10_ZipFusionEquivalence ==
    (pc = "done" /\ entry = "fold" /\ self.kind = "Zip") =>
        /\ ret = <<try_fold(self.fold1, xs), try_fold(self.fold2, xs)>>
        /\ pulled = Len(xs)
        /\ Len(TopCalls) = Len(xs)
        /\ \A j \in 1..Len(TopCalls) : TopCalls[j].index = j

C10_Witness ==
    /\ pc = "done" /\ entry = "fold" /\ self.kind = "Zip"
    /\ IsErr(ret[1]) /\ IsErr(ret[2])
    /\ FirstFailure(self.fold1, xs) < FirstFailure(self.fold2, xs)
    /\ FirstFailure(self.fold2, xs) < Len(xs)

====
